---- MODULE Spec2Model ----
(***************************************************************************)
(* A model of promptify (src/promptify/main.py): the directory walk and    *)
(* filter of aggregate_file_contents, the secret heuristic has_api_key,    *)
(* get_metadata, print_directory_tree, save_profile / load_profile and the *)
(* stages of main.                                                         *)
(*                                                                         *)
(* Text is a sequence of one-character strings, so that glob matching,     *)
(* suffix tests, substring tests, splitting and joining are computed on    *)
(* the characters as the Python code computes them.                        *)
(***************************************************************************)
EXTENDS Naturals, Sequences, FiniteSets, TLC

VARIABLES
    fs,               \* the tree under os.getcwd(): a set of file records
    profiles,         \* .promptify/<name>.profile: what each file holds
    clipboard,        \* the system clipboard's text
    args,             \* argparse's namespace of the current run
    pc,               \* the stage main is at
    stack,            \* os.walk: directories still to yield, next first
    files,            \* the files of the yielded directory not yet iterated
    result,           \* aggregate_file_contents: result
    files_included,   \* aggregate_file_contents: files_included
    files_skipped,    \* aggregate_file_contents: files_skipped
    output,           \* main: output
    metadata,         \* main: metadata
    printed,          \* the lines print_directory_tree printed in this run
    clipboard_success,\* main: clipboard_success
    written,          \* the files main wrote in this run: path -> text
    rc,               \* main's return value
    history           \* what the run did, recorded for the properties

vars == <<fs, profiles, clipboard, args, pc, stack, files, result,
          files_included, files_skipped, output, metadata, printed,
          clipboard_success, written, rc, history>>

(***************************************************************************)
(* Bounds of the model.                                                    *)
(***************************************************************************)
MaxFiles == 2
MaxPaths == 3
MaxDepth == 2

(***************************************************************************)
(* Text helpers: Python's str operations on sequences of characters.       *)
(***************************************************************************)
None == "None"

Truthy(v) == v \notin {None, ""}

Lower == {"a","b","c","d","e","f","g","h","i","j","k","l","m",
          "n","o","p","q","r","s","t","u","v","w","x","y","z"}

Upper == {"A","B","C","D","E","F","G","H","I","J","K","L","M",
          "N","O","P","Q","R","S","T","U","V","W","X","Y","Z"}

Digit == {"0","1","2","3","4","5","6","7","8","9"}

IsAlnum(c) == c \in Lower \cup Upper \cup Digit

IsSpace(c) == c \in {" ", "\n", "\t", "\r", "\f"}

RECURSIVE Rep(_, _)
Rep(c, n) == IF n = 0 THEN <<>> ELSE <<c>> \o Rep(c, n - 1)

RECURSIVE Join(_, _)
Join(parts, sep) ==
    IF parts = <<>> THEN <<>>
    ELSE IF Len(parts) = 1 THEN parts[1]
    ELSE parts[1] \o sep \o Join(Tail(parts), sep)

RECURSIVE Split(_, _)
Split(s, sep) ==
    IF \A i \in 1..Len(s) : s[i] # sep THEN <<s>>
    ELSE LET i == CHOOSE k \in 1..Len(s) :
                      s[k] = sep /\ \A j \in 1..(k - 1) : s[j] # sep
         IN  <<SubSeq(s, 1, i - 1)>> \o Split(SubSeq(s, i + 1, Len(s)), sep)

\* part is in s at position i
OccursAt(s, part, i) ==
    /\ i + Len(part) - 1 <= Len(s)
    /\ \A k \in 1..Len(part) : s[i + k - 1] = part[k]

EndsWith(s, suffix) ==
    /\ Len(suffix) <= Len(s)
    /\ OccursAt(s, suffix, Len(s) - Len(suffix) + 1)

Contains(s, sub) == \E i \in 1..(Len(s) + 1) : OccursAt(s, sub, i)

StripEmpty(s) == \A i \in 1..Len(s) : IsSpace(s[i])

\* fnmatch.fnmatch on a POSIX system, for patterns of literal characters,
\* "*" and "?"
RECURSIVE FnMatch(_, _)
FnMatch(name, pat) ==
    IF pat = <<>> THEN name = <<>>
    ELSE IF Head(pat) = "*"
         THEN \/ FnMatch(name, Tail(pat))
              \/ (name # <<>> /\ FnMatch(Tail(name), pat))
    ELSE IF name = <<>> THEN FALSE
    ELSE /\ (Head(pat) = "?" \/ Head(pat) = Head(name))
         /\ FnMatch(Tail(name), Tail(pat))

AnyMatch(name, patterns) ==
    \E i \in 1..Len(patterns) : FnMatch(name, patterns[i])

(***************************************************************************)
(* Literals of the program.                                                *)
(***************************************************************************)
default_excludes ==
    << <<"*", ".", "p", "y", "c">>,
       <<"*", "e", "g", "g", "-", "i", "n", "f", "o", "*">>,
       <<"*", "t", "m", "p", "*">>,
       <<".", "D", "S", "_", "S", "t", "o", "r", "e">>,
       <<".", "e", "n", "v", "*">> >>

code_extensions ==
    << <<".", "p", "y">>, <<".", "j", "s", "o", "n">>, <<".", "j", "s">>,
       <<".", "h", "t", "m", "l">>, <<".", "c", "s", "s">>,
       <<".", "j", "a", "v", "a">>, <<".", "c", "p", "p">>, <<".", "c">>,
       <<".", "h">>, <<".", "y", "a", "m", "l">>, <<".", "y", "m", "l">> >>

IncludeDefault ==
    << <<"*", ".", "p", "y">>, <<"*", ".", "h", "t", "m", "l">>,
       <<"*", ".", "j", "s">>, <<"*", ".", "c", "s", "s">>,
       <<"*", ".", "j", "s", "o", "n">>, <<"*", ".", "y", "a", "m", "l">>,
       <<"*", ".", "t", "x", "t">>, <<"*", ".", "m", "d">> >>

ExcludeDefault ==
    << <<"*", ".", "p", "y", "c">>,
       <<"*", "e", "g", "g", "-", "i", "n", "f", "o", "*">>,
       <<"*", "t", "m", "p", "*">> >>

MarkerFile == <<"p", "y", "v", "e", "n", "v", ".", "c", "f", "g">>

ApiKeyWord == <<"A", "P", "I", "_", "K", "E", "Y">>

KeyRun == 32
StripeRun == 64
StripeSecret == <<"s", "k", "_">>
StripePublic == <<"p", "k", "_">>

SkipNote ==
    <<" ", "(", "P", "o", "t", "e", "n", "t", "i", "a", "l", " ",
      "A", "P", "I", " ", "k", "e", "y", " ", "f", "o", "u", "n", "d", ".",
      " ", "R", "u", "n", " ", "w", "i", "t", "h", " ",
      "-", "-", "n", "o", "-", "s", "k", "i", "p", " ",
      "o", "p", "t", "i", "o", "n", " ", "t", "o", " ",
      "i", "n", "c", "l", "u", "d", "e", ")">>

\* The backquote character: TLA+ strings cannot hold it, so it is spelled out.
Backquote == "<backquote>"

Fence == <<Backquote, Backquote, Backquote>>

FileHeader(relative_path) ==
    <<"-", "-", "-", "\n", "F", "i", "l", "e", ":", " ", Backquote>>
        \o relative_path \o <<Backquote, "\n">>

(***************************************************************************)
(* has_api_key: some pattern has a match anywhere in the text.             *)
(***************************************************************************)
PatternFound(code, prefix, run) ==
    \E i \in 1..(Len(code) + 1) :
        /\ i + Len(prefix) + run - 1 <= Len(code)
        /\ OccursAt(code, prefix, i)
        /\ \A j \in 0..(run - 1) : IsAlnum(code[i + Len(prefix) + j])

has_api_key(code) ==
    \/ PatternFound(code, <<>>, KeyRun)
    \/ PatternFound(code, StripeSecret, StripeRun)
    \/ PatternFound(code, StripePublic, StripeRun)

(***************************************************************************)
(* get_metadata: the count of the characters that are not whitespace.      *)
(* The token count comes from an external tokenizer and is not modelled.   *)
(***************************************************************************)
\* char_count, had every character been counted
CharCountWithSpaces(content) == Len(content)

char_count(content) ==
    Cardinality({i \in 1..Len(content) : ~IsSpace(content[i])})

get_metadata(content) ==
    << <<"Tokenizer", "openai/tiktoken">>,
       <<"Character Count", char_count(content)>> >>

(***************************************************************************)
(* The tree under the working directory.  A directory is the sequence of   *)
(* the names from the working directory down to it; a file is a record of  *)
(* its directory, its name and what reading it as UTF-8 gives.             *)
(***************************************************************************)
DirV == <<"v">>
DirL == <<"l">>
WalkDirs == { <<>>, <<DirV>>, <<DirV, DirL>> }

SubDirs(d) ==
    {e \in WalkDirs : Len(e) = Len(d) + 1 /\ SubSeq(e, 1, Len(d)) = d}

Orders(S) ==
    {o \in [1..Cardinality(S) -> S] :
        \A i, j \in 1..Cardinality(S) : i # j => o[i] # o[j]}

Text(t) == [ok |-> TRUE, text |-> t]
Undecodable == [ok |-> FALSE, text |-> <<>>]

NamePy == <<"a", ".", "p", "y">>
NameTxt == <<"b", ".", "t", "x", "t">>
NameEnv == <<".", "e", "n", "v">>

TextCode == <<"x", " ", "=", " ", "1", "\n">>
TextBlank == <<" ", "\n">>
TextKey == ApiKeyWord \o <<"=">> \o Rep("k", KeyRun) \o <<"\n">>
TextShort == ApiKeyWord \o <<"=">> \o Rep("k", KeyRun - 1)
TextRun == <<"t", "=">> \o Rep("k", KeyRun)
TextStripe == ApiKeyWord \o <<"=">> \o StripeSecret \o Rep("k", StripeRun)

Samples ==
    { <<NamePy, Text(TextKey)>>, <<NamePy, Text(TextShort)>>,
      <<NameTxt, Text(TextBlank)>>, <<NameTxt, Text(TextRun)>>,
      <<NameTxt, Undecodable>>,
      <<NameEnv, Text(TextStripe)>>,
      <<MarkerFile, Text(TextCode)>> }

Candidates ==
    { [dir |-> d, name |-> s[1], content |-> s[2]] : d \in WalkDirs, s \in Samples }

RECURSIVE SetsUpTo(_, _)
SetsUpTo(S, n) ==
    IF n = 0 THEN { {} }
    ELSE LET P == SetsUpTo(S, n - 1)
         IN  P \cup { p \cup {x} : p \in P, x \in S }

\* A directory holds one file of a name.
IsTree(F) ==
    \A f, g \in F : (f.dir = g.dir /\ f.name = g.name) => f = g

FileSystems == {F \in SetsUpTo(Candidates, MaxFiles) : IsTree(F)}

\* os.path.relpath(os.path.join(root, file), current_dir)
RelPath(file) == Join(file.dir \o <<file.name>>, <<"/">>)

(***************************************************************************)
(* aggregate_file_contents.                                                *)
(***************************************************************************)
\* Selected, had the built-in excludes been left out of the test
SelectedWithoutDefaults(relative_path, include_files, exclude_files) ==
    /\ AnyMatch(relative_path, include_files)
    /\ ~AnyMatch(relative_path, exclude_files)

\* the include / exclude test of lines 35-40
Selected(relative_path, include_files, exclude_files) ==
    /\ AnyMatch(relative_path, include_files)
    /\ ~AnyMatch(relative_path, exclude_files \o default_excludes)

\* SkipsForKey, had the test forgotten the no_skip flag
SkipsForKeyAlways(content, no_skip) ==
    Contains(content, ApiKeyWord) /\ has_api_key(content)

\* the skip test of line 53
SkipsForKey(content, no_skip) ==
    Contains(content, ApiKeyWord) /\ has_api_key(content) /\ ~no_skip

\* Wrapped, had ".c" been left out of the extension list
WrappedWithoutC(file, content) ==
    IF \E i \in 1..Len(code_extensions) :
           code_extensions[i] # <<".", "c">> /\ EndsWith(file, code_extensions[i])
    THEN Fence \o <<"\n">> \o content \o <<"\n">> \o Fence
    ELSE content

\* lines 79-82: what is appended for the content of an included file
Wrapped(file, content) ==
    IF \E i \in 1..Len(code_extensions) : EndsWith(file, code_extensions[i])
    THEN Fence \o <<"\n">> \o content \o <<"\n">> \o Fence
    ELSE content

\* the outcome of the loop body for one file: "pass" (not selected),
\* "undecodable", "empty", "skipped" or "included"
Outcome(file, a) ==
    IF ~Selected(RelPath(file), a.include, a.exclude) THEN "pass"
    ELSE IF ~file.content.ok THEN "undecodable"
    ELSE IF a.ignore_empty /\ StripEmpty(file.content.text) THEN "empty"
    ELSE IF SkipsForKey(file.content.text, a.no_skip) THEN "skipped"
    ELSE "included"

\* the state aggregate_file_contents starts from
EnterWalk ==
    /\ stack' = << <<>> >>
    /\ files' = {}
    /\ result' = <<>>
    /\ files_included' = <<>>
    /\ files_skipped' = <<>>

\* WalkDir, had the marker only skipped the directory's own files
\* ("continue" without "dirs[:] = []")
WalkDirDescending ==
    /\ pc = "walk"
    /\ files = {}
    /\ stack # <<>>
    /\ LET root == Head(stack)
           here == {f \in fs : f.dir = root}
       IN  /\ history' = [history EXCEPT !.visited = @ \cup {root}]
           /\ \E order \in Orders(SubDirs(root)) : stack' = order \o Tail(stack)
           /\ files' = IF \E f \in here : f.name = MarkerFile THEN {} ELSE here
    /\ UNCHANGED <<fs, profiles, clipboard, args, pc, result, files_included,
                   files_skipped, output, metadata, printed,
                   clipboard_success, written, rc>>

\* one iteration of "for root, dirs, files in os.walk(current_dir)" up to
\* the inner loop: a directory holding the marker file is left at once and
\* none of its subdirectories is descended into
WalkDir ==
    /\ pc = "walk"
    /\ files = {}
    /\ stack # <<>>
    /\ LET root == Head(stack)
           here == {f \in fs : f.dir = root}
       IN  /\ history' = [history EXCEPT !.visited = @ \cup {root}]
           /\ IF \E f \in here : f.name = MarkerFile
              THEN /\ stack' = Tail(stack)
                   /\ files' = {}
              ELSE /\ \E order \in Orders(SubDirs(root)) :
                          stack' = order \o Tail(stack)
                   /\ files' = here
    /\ UNCHANGED <<fs, profiles, clipboard, args, pc, result, files_included,
                   files_skipped, output, metadata, printed,
                   clipboard_success, written, rc>>

\* SkippedAfter, had the files that fail to decode been recorded as skipped
SkippedAfterWithDecodeErrors(skipped, relative_path, outcome) ==
    IF outcome \in {"skipped", "undecodable"}
    THEN Append(skipped, relative_path \o SkipNote)
    ELSE skipped

\* lines 57-60: files_skipped after the loop body ran with this outcome
SkippedAfter(skipped, relative_path, outcome) ==
    IF outcome = "skipped"
    THEN Append(skipped, relative_path \o SkipNote)
    ELSE skipped

\* line 63: files_included after the loop body ran with this outcome
IncludedAfter(included, relative_path, outcome) ==
    IF outcome = "included" THEN Append(included, relative_path) ELSE included

\* lines 64-84: result after the loop body ran with this outcome
ResultAfter(res, file, outcome) ==
    IF outcome = "included"
    THEN res \o << FileHeader(RelPath(file)),
                   Wrapped(file.name, file.content.text),
                   <<>> >>
    ELSE res

\* one iteration of "for file in files"
ProcessFile ==
    /\ pc = "walk"
    /\ \E file \in files :
        LET relative_path == RelPath(file)
            outcome == Outcome(file, args)
        IN  /\ files' = files \ {file}
            /\ history' = [history EXCEPT !.walked = @ \cup {file}]
            /\ files_skipped' = SkippedAfter(files_skipped, relative_path, outcome)
            /\ files_included' = IncludedAfter(files_included, relative_path, outcome)
            /\ result' = ResultAfter(result, file, outcome)
    /\ UNCHANGED <<fs, profiles, clipboard, args, pc, stack, output, metadata,
                   printed, clipboard_success, written, rc>>

\* line 86: the walk is over
AggReturn ==
    /\ pc = "walk"
    /\ files = {}
    /\ stack = <<>>
    /\ output' = Join(result, <<"\n">>)
    /\ pc' = "returned"
    /\ UNCHANGED <<fs, profiles, clipboard, args, stack, files, result,
                   files_included, files_skipped, metadata, printed,
                   clipboard_success, written, rc, history>>

(***************************************************************************)
(* The specification of aggregate_file_contents alone: any tree, any       *)
(* filter settings.                                                        *)
(***************************************************************************)
ProfileNames == {"p"}

\* a profile file that does not exist
Missing == [state |-> "missing", doc |-> <<>>]

\* a profile file that cannot be opened for reading
Unreadable == [state |-> "unreadable", doc |-> <<>>]

\* What a run did, for the properties: the directories os.walk yielded, the
\* files the loop body ran on, the text handed to pyperclip.copy, how the
\* profile load, the profile save, the clipboard step and the file write
\* went, the filter settings of the command line; and, kept from run to run, for each profile name the settings of the
\* last run that reached save_profile with it (asked) and of the last one
\* whose save succeeded with the file untouched since (exported).
NoHistory ==
    [visited |-> {}, walked |-> {}, offered |-> <<>>, load |-> "none",
     save |-> "none", clip |-> "none", wrote |-> "none", cli |-> <<>>,
     exported |-> [n \in ProfileNames |-> <<>>],
     asked |-> [n \in ProfileNames |-> <<>>]]

IncludeAll == << <<"*">> >>
ExcludePy == << <<"*", ".", "p", "y">> >>

\* the filter settings tried: the defaults, everything included, *.py excluded
Filters ==
    { <<IncludeDefault, ExcludeDefault>>, <<IncludeAll, ExcludeDefault>>,
      <<IncludeDefault, ExcludePy>> }

AggArgs ==
    { [include |-> f[1], exclude |-> f[2], ignore_empty |-> e, no_skip |-> n,
       output |-> None, export_profile |-> None, profile |-> None] :
          f \in Filters, e \in BOOLEAN, n \in BOOLEAN }

\* the state a call of aggregate_file_contents starts in
CallAggregate(trees, settings) ==
    /\ fs \in trees
    /\ args \in settings
    /\ profiles = [n \in ProfileNames |-> Missing]
    /\ clipboard = <<>>
    /\ pc = "walk"
    /\ stack = << <<>> >>
    /\ files = {}
    /\ result = <<>>
    /\ files_included = <<>>
    /\ files_skipped = <<>>
    /\ output = <<>>
    /\ metadata = <<>>
    /\ printed = <<>>
    /\ clipboard_success = FALSE
    /\ written = <<>>
    /\ rc = None
    /\ history = NoHistory

InitAgg == CallAggregate(FileSystems, AggArgs)

NextAgg == WalkDir \/ ProcessFile \/ AggReturn

SpecAgg == InitAgg /\ [][NextAgg]_vars

(***************************************************************************)
(* The same call on trees that vary the file names: one name for each      *)
(* extension of the list the fence is documented for, and names that end   *)
(* in none of them.                                                        *)
(***************************************************************************)
FenceExtensions ==
    { <<".", "p", "y">>, <<".", "j", "s", "o", "n">>, <<".", "j", "s">>,
      <<".", "h", "t", "m", "l">>, <<".", "c", "s", "s">>,
      <<".", "j", "a", "v", "a">>, <<".", "c", "p", "p">>, <<".", "c">>,
      <<".", "h">>, <<".", "y", "a", "m", "l">>, <<".", "y", "m", "l">> }

PlainNames ==
    { <<"a", ".", "t", "x", "t">>, <<"a", ".", "m", "d">>,
      <<"a", ".", "p", "y", ".", "t", "x", "t">>, <<"p", "y">>,
      <<"a", ".", "h", "p", "p">>, <<"a", ".", "p", "y", "c">> }

FenceNames == {<<"a">> \o e : e \in FenceExtensions} \cup {<<".", "c">>} \cup PlainNames

FenceTrees ==
    SetsUpTo({[dir |-> <<>>, name |-> n, content |-> Text(TextCode)] : n \in FenceNames},
             MaxFiles)

FenceArgs == {a \in AggArgs : ~a.ignore_empty /\ ~a.no_skip /\ a.exclude = ExcludeDefault}

InitFence == CallAggregate(FenceTrees, FenceArgs)

SpecFence == InitFence /\ [][NextAgg]_vars

(***************************************************************************)
(* print_directory_tree.  A printed line is its text.  The box-drawing      *)
(* characters, which TLA+ strings cannot hold, are spelled out.            *)
(***************************************************************************)
BoxCorner == "<U+2514>"
BoxTee == "<U+251C>"
BoxDash == "<U+2500>"
BoxBar == "<U+2502>"

LastBranch == <<BoxCorner, BoxDash, BoxDash, " ">>
Branch == <<BoxTee, BoxDash, BoxDash, " ">>
Indent == <<" ", " ", " ", " ">>
BarIndent == <<BoxBar, " ", " ", " ">>

\* the characters in the order of their code points, for Python's string
\* comparison
Ascii ==
    <<"\t", "\n", "\f", "\r", " ", "!", "#", "$", "%", "&", "(", ")", "*",
      "+", ",", "-", ".", "/",
      "0", "1", "2", "3", "4", "5", "6", "7", "8", "9",
      ":", ";", "<", "=", ">", "?", "@",
      "A", "B", "C", "D", "E", "F", "G", "H", "I", "J", "K", "L", "M",
      "N", "O", "P", "Q", "R", "S", "T", "U", "V", "W", "X", "Y", "Z",
      "[", "]", "^", "_", Backquote,
      "a", "b", "c", "d", "e", "f", "g", "h", "i", "j", "k", "l", "m",
      "n", "o", "p", "q", "r", "s", "t", "u", "v", "w", "x", "y", "z",
      "{", "|", "}", "~">>

Ord(c) == CHOOSE i \in 1..Len(Ascii) : Ascii[i] = c

\* a < b for Python strings
StrLess(a, b) ==
    \E k \in 1..(Len(a) + 1) :
        /\ k <= Len(b)
        /\ \A j \in 1..(k - 1) : a[j] = b[j]
        /\ k <= Len(a) => Ord(a[k]) < Ord(b[k])

\* lines 123-130: the nested dictionaries, as the set of their key paths
TreeOf(file_paths) ==
    UNION { LET parts == Split(file_paths[i], "/")
            IN  {SubSeq(parts, 1, n) : n \in 1..Len(parts)} :
            i \in 1..Len(file_paths) }

\* node.items(): the keys of the dictionary at a key path
Items(tree, node) ==
    {n \in tree : Len(n) = Len(node) + 1 /\ SubSeq(n, 1, Len(node)) = node}

\* SortedItems, had the sort been descending
RECURSIVE SortedDescending(_)
SortedDescending(items) ==
    IF items = {} THEN <<>>
    ELSE LET last == CHOOSE x \in items :
                         \A y \in items \ {x} : StrLess(y[Len(y)], x[Len(x)])
         IN  <<last>> \o SortedDescending(items \ {last})

\* line 138: sorted(node.items()), by name
RECURSIVE SortedItems(_)
SortedItems(items) ==
    IF items = {} THEN <<>>
    ELSE LET first == CHOOSE x \in items :
                          \A y \in items \ {x} : StrLess(x[Len(x)], y[Len(y)])
         IN  <<first>> \o SortedItems(items \ {first})

\* lines 133-141: the lines print_tree prints for a node and below it
RECURSIVE print_tree(_, _, _, _, _)
RECURSIVE PrintItems(_, _, _, _)
print_tree(tree, node, name, prefix, is_last) ==
    LET line == prefix \o (IF is_last THEN LastBranch ELSE Branch) \o name
        deeper == prefix \o (IF is_last THEN Indent ELSE BarIndent)
    IN  <<line>> \o PrintItems(tree, SortedItems(Items(tree, node)), 1, deeper)

\* lines 139-141: the loop over the sorted items, from the i-th on
PrintItems(tree, items, i, prefix) ==
    IF i > Len(items) THEN <<>>
    ELSE print_tree(tree, items[i], items[i][Len(items[i])], prefix,
                    i = Len(items))
             \o PrintItems(tree, items, i + 1, prefix)

print_directory_tree(file_paths) ==
    print_tree(TreeOf(file_paths), <<>>, <<".">>, <<>>, TRUE)

(***************************************************************************)
(* save_profile and load_profile.  A profile file holds a YAML document,   *)
(* modelled as the sequence of its key-value lines: yaml.dump writes the   *)
(* keys of the dictionary in sorted order, yaml.safe_load gives the        *)
(* mapping back, and None for an empty document.  An optional value        *)
(* (None or a value) is a sequence of length zero or one.                  *)
(***************************************************************************)
YamlDump(profile) ==
    << <<"exclude", profile.exclude>>,
       <<"ignore_empty", profile.ignore_empty>>,
       <<"include", profile.include>>,
       <<"no_skip", profile.no_skip>> >>

YamlSafeLoad(doc) ==
    IF doc = <<>> THEN <<>>
    ELSE << [k \in {doc[i][1] : i \in 1..Len(doc)} |->
                doc[CHOOSE i \in 1..Len(doc) : doc[i][1] = k][2]] >>

\* lines 151-156: the dictionary save_profile dumps
ProfileDict(include_patterns, exclude_patterns, ignore_empty, no_skip) ==
    [include |-> include_patterns, exclude |-> exclude_patterns,
     ignore_empty |-> ignore_empty, no_skip |-> no_skip]

\* the profile file after save_profile: written, left as it was when open
\* raises, left empty when the dump raises after open truncated it
SavedFile(old, profile, outcome) ==
    CASE outcome = "ok" -> [state |-> "file", doc |-> YamlDump(profile)]
      [] outcome = "open_raised" -> old
      [] outcome = "dump_raised" -> [state |-> "file", doc |-> <<>>]

\* load_profile: None when the file is missing or cannot be read
load_profile(profile_name) ==
    IF profiles[profile_name].state # "file" THEN <<>>
    ELSE YamlSafeLoad(profiles[profile_name].doc)

\* "if profile:"
ProfileTruthy(profile) == profile # <<>> /\ DOMAIN profile[1] # {}

(***************************************************************************)
(* main.                                                                   *)
(***************************************************************************)
MinusOne == "-1"
FallbackPath == "output.promptify"

Settings(a) == <<a.include, a.exclude, a.ignore_empty, a.no_skip>>

\* the filter settings a command line may give
SettingChoices ==
    { <<IncludeDefault, ExcludeDefault, FALSE, FALSE>>,
      <<IncludeAll, ExcludePy, TRUE, TRUE>>,
      <<IncludeDefault, ExcludeDefault, FALSE, TRUE>> }

MainArgs ==
    { [include |-> c[1], exclude |-> c[2], ignore_empty |-> c[3],
       no_skip |-> c[4], output |-> o, export_profile |-> e, profile |-> l] :
          c \in SettingChoices, o \in {None, "", "out.txt"},
          e \in {None, ""} \cup ProfileNames, l \in {None, ""} \cup ProfileNames }

\* lines 190-235: the namespace when no option is given
DefaultArgs ==
    [include |-> IncludeDefault, exclude |-> ExcludeDefault,
     ignore_empty |-> FALSE, no_skip |-> FALSE,
     output |-> None, export_profile |-> None, profile |-> None]

MainTrees ==
    { {},
      { [dir |-> <<>>, name |-> NamePy, content |-> Text(TextKey)],
        [dir |-> <<DirV>>, name |-> NameTxt, content |-> Text(TextBlank)] },
      { [dir |-> <<>>, name |-> NameTxt, content |-> Text(TextRun)],
        [dir |-> <<DirV>>, name |-> MarkerFile, content |-> Text(TextCode)],
        [dir |-> <<DirV, DirL>>, name |-> NamePy, content |-> Text(TextShort)] } }

\* argparse: a run starts
ParseArgs ==
    /\ pc \in {"idle", "exit"}
    /\ args' \in MainArgs
    /\ pc' = "load"
    /\ clipboard' = <<>>
    /\ stack' = <<>>
    /\ files' = {}
    /\ result' = <<>>
    /\ files_included' = <<>>
    /\ files_skipped' = <<>>
    /\ output' = <<>>
    /\ metadata' = <<>>
    /\ printed' = <<>>
    /\ clipboard_success' = FALSE
    /\ written' = <<>>
    /\ rc' = None
    /\ history' = [NoHistory EXCEPT !.exported = history.exported,
                                    !.asked = history.asked,
                                    !.cli = <<Settings(args')>>]
    /\ UNCHANGED <<fs, profiles>>

\* Overridden, had the exclude patterns of the command line been kept
OverriddenWithoutExclude(a, profile) ==
    [a EXCEPT !.include = profile["include"],
              !.ignore_empty = profile["ignore_empty"],
              !.no_skip = profile["no_skip"]]

\* lines 243-246: args after the profile overrode the four settings
Overridden(a, profile) ==
    [a EXCEPT !.include = profile["include"],
              !.exclude = profile["exclude"],
              !.ignore_empty = profile["ignore_empty"],
              !.no_skip = profile["no_skip"]]

\* LoadProfile, had main gone on with the command line's settings when the
\* profile does not load
LoadProfileGoingOn ==
    /\ pc = "load"
    /\ IF Truthy(args.profile)
       THEN LET profile == load_profile(args.profile)
            IN  /\ args' = IF ProfileTruthy(profile)
                           THEN Overridden(args, profile[1])
                           ELSE args
                /\ history' = [history EXCEPT
                                  !.load = IF ProfileTruthy(profile)
                                           THEN "ok" ELSE "failed"]
       ELSE UNCHANGED <<args, history>>
    /\ pc' = "walk"
    /\ EnterWalk
    /\ UNCHANGED <<fs, profiles, clipboard, output, metadata, printed,
                   clipboard_success, written, rc>>

\* lines 240-249: the profile is loaded, or main returns -1, and line 251
\* calls aggregate_file_contents
LoadProfile ==
    /\ pc = "load"
    /\ IF Truthy(args.profile)
       THEN LET profile == load_profile(args.profile)
            IN  IF ProfileTruthy(profile)
                THEN /\ args' = Overridden(args, profile[1])
                     /\ history' = [history EXCEPT !.load = "ok"]
                     /\ pc' = "walk"
                     /\ EnterWalk
                     /\ rc' = rc
                ELSE /\ rc' = MinusOne
                     /\ history' = [history EXCEPT !.load = "failed"]
                     /\ pc' = "exit"
                     /\ UNCHANGED <<args, stack, files, result, files_included,
                                    files_skipped>>
       ELSE /\ pc' = "walk"
            /\ EnterWalk
            /\ UNCHANGED <<args, rc, history>>
    /\ UNCHANGED <<fs, profiles, clipboard, output, metadata, printed,
                   clipboard_success, written>>

\* line 254
GetMetadata ==
    /\ pc = "returned"
    /\ metadata' = get_metadata(output)
    /\ pc' = "export"
    /\ UNCHANGED <<fs, profiles, clipboard, args, stack, files, result,
                   files_included, files_skipped, output, printed,
                   clipboard_success, written, rc, history>>

\* lines 257-264: save_profile, whose write may fail (the failure is caught)
ExportProfile ==
    /\ pc = "export"
    /\ pc' = "print"
    /\ IF Truthy(args.export_profile)
       THEN \E outcome \in {"ok", "open_raised", "dump_raised"} :
               LET name == args.export_profile
                   profile == ProfileDict(args.include, args.exclude,
                                          args.ignore_empty, args.no_skip)
               IN  /\ profiles' =
                          [profiles EXCEPT ![name] = SavedFile(@, profile, outcome)]
                   /\ history' =
                          [history EXCEPT
                              !.save = outcome,
                              !.asked[name] = <<Settings(args)>>,
                              !.exported[name] =
                                  CASE outcome = "ok" -> <<Settings(args)>>
                                    [] outcome = "open_raised" -> @
                                    [] outcome = "dump_raised" -> <<>>]
       ELSE UNCHANGED <<profiles, history>>
    /\ UNCHANGED <<fs, clipboard, args, stack, files, result, files_included,
                   files_skipped, output, metadata, printed,
                   clipboard_success, written, rc>>

\* lines 266-272: the trees of the included and, if any, the skipped files
PrintTrees ==
    /\ pc = "print"
    /\ printed' =
           <<print_directory_tree(files_included)>>
               \o (IF files_skipped # <<>>
                   THEN <<print_directory_tree(files_skipped)>>
                   ELSE <<>>)
    /\ pc' = "clip"
    /\ UNCHANGED <<fs, profiles, clipboard, args, stack, files, result,
                   files_included, files_skipped, output, metadata,
                   clipboard_success, written, rc, history>>

\* lines 274-281: pyperclip.copy, then pyperclip.paste; either may raise
CopyToClipboard ==
    /\ pc = "clip"
    /\ \E outcome \in {"ok", "copy_raised", "paste_raised"} :
           /\ clipboard' = IF outcome = "copy_raised" THEN clipboard ELSE output
           /\ clipboard_success' = (outcome = "ok")
           /\ history' = [history EXCEPT !.clip = outcome,
                                         !.offered = <<output>>]
    /\ pc' = "write"
    /\ UNCHANGED <<fs, profiles, args, stack, files, result, files_included,
                   files_skipped, output, metadata, printed, written, rc>>

\* WritePath, had the fallback been tested before --output
WritePathFallbackFirst(a, success) ==
    IF ~success THEN <<FallbackPath>>
    ELSE IF Truthy(a.output) THEN <<a.output>>
    ELSE <<>>

\* lines 283-296: the path main writes output to, if any
WritePath(a, success) ==
    IF Truthy(a.output) THEN <<a.output>>
    ELSE IF ~success THEN <<FallbackPath>>
    ELSE <<>>

\* lines 283-296: the write, which may fail (the failure is caught)
WriteOutput ==
    /\ pc = "write"
    /\ LET path == WritePath(args, clipboard_success)
       IN  IF path = <<>>
           THEN UNCHANGED <<written, history>>
           ELSE \E ok \in BOOLEAN :
                   /\ written' = IF ok THEN Append(written, <<path[1], output>>)
                                 ELSE written
                   /\ history' = [history EXCEPT
                                     !.wrote = IF ok THEN "ok" ELSE "failed"]
    /\ pc' = "exit"
    /\ UNCHANGED <<fs, profiles, clipboard, args, stack, files, result,
                   files_included, files_skipped, output, metadata, printed,
                   clipboard_success, rc>>

InitMain ==
    /\ fs \in MainTrees
    /\ profiles \in [ProfileNames -> {Missing, Unreadable}]
    /\ args = DefaultArgs
    /\ clipboard = <<>>
    /\ pc = "idle"
    /\ stack = <<>>
    /\ files = {}
    /\ result = <<>>
    /\ files_included = <<>>
    /\ files_skipped = <<>>
    /\ output = <<>>
    /\ metadata = <<>>
    /\ printed = <<>>
    /\ clipboard_success = FALSE
    /\ written = <<>>
    /\ rc = None
    /\ history = NoHistory

Next ==
    \/ ParseArgs
    \/ LoadProfile
    \/ WalkDir
    \/ ProcessFile
    \/ AggReturn
    \/ GetMetadata
    \/ ExportProfile
    \/ PrintTrees
    \/ CopyToClipboard
    \/ WriteOutput

Spec == InitMain /\ [][Next]_vars

(***************************************************************************)
(* print_directory_tree on any list of relative paths.                     *)
(***************************************************************************)
TreeNames == { <<"b">>, <<"a", "b">> }

RECURSIVE SeqsUpTo(_, _)
SeqsUpTo(S, n) ==
    IF n = 0 THEN { <<>> }
    ELSE SeqsUpTo(S, n - 1) \cup {Append(q, x) : q \in SeqsUpTo(S, n - 1), x \in S}

TreePaths == {Join(c, <<"/">>) : c \in SeqsUpTo(TreeNames, MaxDepth) \ { <<>> }}

InitTree ==
    /\ fs = {}
    /\ profiles = [n \in ProfileNames |-> Missing]
    /\ args = DefaultArgs
    /\ clipboard = <<>>
    /\ pc = "print"
    /\ stack = <<>>
    /\ files = {}
    /\ result = <<>>
    /\ files_included \in SeqsUpTo(TreePaths, MaxPaths)
    /\ files_skipped = <<>>
    /\ output = <<>>
    /\ metadata = <<>>
    /\ printed = <<>>
    /\ clipboard_success = FALSE
    /\ written = <<>>
    /\ rc = None
    /\ history = NoHistory

SpecTree == InitTree /\ [][PrintTrees]_vars

(***************************************************************************)
(* Properties of aggregate_file_contents, checked under SpecAgg.           *)
(***************************************************************************)
Range(s) == {s[i] : i \in 1..Len(s)}

Count(s, x) == Cardinality({i \in 1..Len(s) : s[i] = x})

Positions(text, part) ==
    {i \in 1..Len(text) : OccursAt(text, part, i)}

Excluded(relative_path) ==
    \/ AnyMatch(relative_path, args.exclude)
    \/ AnyMatch(relative_path, default_excludes)

PassesFilter(f) == AnyMatch(RelPath(f), args.include) /\ ~Excluded(RelPath(f))

IsIncluded(f) == RelPath(f) \in Range(files_included)

IsSkipped(f) == (RelPath(f) \o SkipNote) \in Range(files_skipped)

InOutput(f) ==
    \/ FileHeader(RelPath(f)) \in Range(result)
    \/ Contains(output, FileHeader(RelPath(f)))

FileAt(relative_path) == CHOOSE f \in fs : RelPath(f) = relative_path

\* C1: a file whose relative path matches a pattern of the user's exclude
\* list or of the built-in excludes is never in files_included and never in
\* the output, even when it matches an include pattern; and every entry of
\* files_included matches an include pattern.
C1_ExcludeWins ==
    /\ \A f \in fs :
           (IsIncluded(f) \/ IsSkipped(f) \/ InOutput(f)) => ~Excluded(RelPath(f))
    /\ \A i \in 1..Len(files_included) :
           AnyMatch(files_included[i], args.include)

\* the walk is over, a file matched by an include pattern and by an exclude
\* pattern was iterated, and another file was included
C1_Witness ==
    /\ pc = "returned"
    /\ files_included # <<>>
    /\ \E f \in history.walked :
           /\ AnyMatch(RelPath(f), args.include)
           /\ AnyMatch(RelPath(f), default_excludes)
           /\ f.content.ok

AlnumRunAt(text, i, n) ==
    /\ i + n - 1 <= Len(text)
    /\ \A k \in i..(i + n - 1) : IsAlnum(text[k])

\* the secret-like token of the claim
SecretLike(text) ==
    \E i \in 1..Len(text) :
        \/ AlnumRunAt(text, i, KeyRun)
        \/ /\ i + 2 <= Len(text)
           /\ SubSeq(text, i, i + 2) \in {StripeSecret, StripePublic}
           /\ AlnumRunAt(text, i + 3, StripeRun)

SkippedNotIncluded(f) == IsSkipped(f) /\ ~IsIncluded(f) /\ ~InOutput(f)

\* C2 as stated: a selected file whose content holds a secret-like token is
\* skipped, unless no_skip is set, and then it is included.
C2_AsStated ==
    \A f \in history.walked :
        (f.content.ok /\ SecretLike(f.content.text) /\ PassesFilter(f))
            => IF args.no_skip THEN IsIncluded(f) ELSE SkippedNotIncluded(f)

\* C2 as amended: a selected file, readable as UTF-8, whose content holds the
\* literal text API_KEY and a secret-like token is skipped, unless no_skip is
\* set, and then it is included.
C2_KeyWordAndToken ==
    \A f \in history.walked :
        (/\ f.content.ok
         /\ Contains(f.content.text, ApiKeyWord)
         /\ PassesFilter(f)
         /\ SecretLike(f.content.text))
            => IF args.no_skip THEN IsIncluded(f) ELSE SkippedNotIncluded(f)

\* a selected file holding API_KEY and a token was skipped, and another,
\* under no_skip, would be included: both cases are reached
C2_Witness ==
    /\ pc = "returned"
    /\ \E f \in history.walked :
           /\ PassesFilter(f)
           /\ f.content.ok
           /\ Contains(f.content.text, ApiKeyWord)
           /\ SecretLike(f.content.text)
           /\ IF args.no_skip THEN IsIncluded(f) ELSE IsSkipped(f)
    /\ \E g \in history.walked : IsIncluded(g)

Marked(d) == \E f \in fs : f.dir = d /\ f.name = MarkerFile

InMarkedSubtree(f) == \E n \in 0..Len(f.dir) : Marked(SubSeq(f.dir, 1, n))

\* C3: no file of a directory holding pyvenv.cfg, or of a directory below it,
\* is iterated, included, skipped or in the output; when the walk is over
\* every other file was iterated and is included exactly when the loop body
\* includes it.
C3_MarkerHaltsSubtree ==
    /\ \A f \in fs :
           InMarkedSubtree(f) =>
               /\ f \notin history.walked
               /\ ~IsIncluded(f)
               /\ ~IsSkipped(f)
               /\ ~InOutput(f)
    /\ pc = "returned" =>
           \A f \in fs :
               ~InMarkedSubtree(f) =>
                   /\ f \in history.walked
                   /\ IsIncluded(f) <=> (Outcome(f, args) = "included")
                   /\ IsSkipped(f) <=> (Outcome(f, args) = "skipped")

\* the walk is over; the marker sits in v, and a file of v/l that the loop
\* body would include was left out
C3_Witness ==
    /\ pc = "returned"
    /\ Marked(<<DirV>>)
    /\ ~Marked(<<>>)
    /\ \E f \in fs :
           /\ f.dir = <<DirV, DirL>>
           /\ Outcome(f, args) = "included"
           /\ ~IsIncluded(f)

\* the name ends with an extension of the documented list
Recognized(name) == \E e \in FenceExtensions : EndsWith(name, e)

ExpectedBody(f) ==
    IF Recognized(f.name)
    THEN Fence \o <<"\n">> \o f.content.text \o <<"\n">> \o Fence
    ELSE f.content.text

\* C6: the content of an included file is between a line ``` and a line ```
\* exactly when the file's name ends with a recognized extension; any other
\* included file's content is appended as it is.
C6_FenceIffRecognized ==
    /\ Len(result) = 3 * Len(files_included)
    /\ \A i \in 1..Len(files_included) :
           LET f == FileAt(files_included[i])
           IN  /\ result[3 * i - 1] = ExpectedBody(f)
               /\ pc = "returned" =>
                      Contains(output,
                               FileHeader(RelPath(f)) \o <<"\n">>
                                   \o ExpectedBody(f) \o <<"\n">>)

\* the walk is over and both a.c, of a recognized extension, and a.py.txt,
\* of none, were included
C6_Witness ==
    /\ pc = "returned"
    /\ \E i, j \in 1..Len(files_included) :
           /\ FileAt(files_included[i]).name = <<"a", ".", "c">>
           /\ FileAt(files_included[j]).name = <<"a", ".", "p", "y", ".", "t", "x", "t">>

\* C10: a file is in files_included or in files_skipped or in neither, never
\* in both nor twice, and only once iterated; result holds one header per
\* entry of files_included, in that order, and so does the output, which
\* holds no header of another file; a selected file that fails to decode, or
\* is whitespace only under ignore_empty, is in neither list; under no_skip
\* files_skipped is empty.
C10_OneOutcome ==
    /\ \A f \in fs :
           /\ Count(files_included, RelPath(f))
                  + Count(files_skipped, RelPath(f) \o SkipNote) <= 1
           /\ (IsIncluded(f) \/ IsSkipped(f)) => f \in history.walked
    /\ Range(files_included) \subseteq {RelPath(f) : f \in fs}
    /\ Range(files_skipped) \subseteq {RelPath(f) \o SkipNote : f \in fs}
    /\ Len(result) = 3 * Len(files_included)
    /\ \A i \in 1..Len(files_included) :
           result[3 * i - 2] = FileHeader(files_included[i])
    /\ pc = "returned" =>
           /\ \A f \in fs :
                  Cardinality(Positions(output, FileHeader(RelPath(f))))
                      = IF IsIncluded(f) THEN 1 ELSE 0
           /\ \A i, j \in 1..Len(files_included) :
                  i < j =>
                      \A m \in Positions(output, FileHeader(files_included[i])),
                         n \in Positions(output, FileHeader(files_included[j])) :
                          m < n
    /\ \A f \in history.walked :
           (\/ ~f.content.ok
            \/ (args.ignore_empty /\ StripEmpty(f.content.text)))
               => ~IsIncluded(f) /\ ~IsSkipped(f)
    /\ args.no_skip => files_skipped = <<>>

\* the walk is over: a selected file that fails to decode was iterated, and
\* another file was included
C10_Witness ==
    /\ pc = "returned"
    /\ files_included # <<>>
    /\ \E f \in history.walked : PassesFilter(f) /\ ~f.content.ok

(***************************************************************************)
(* Properties of main, checked under Spec.                                 *)
(***************************************************************************)
Delivered == pc = "exit" /\ rc # MinusOne

OutputGiven == Truthy(args.output)

WrittenTo(path) == \E i \in 1..Len(written) : written[i][1] = path

\* C4: in a run that reaches the delivery stage the text is offered to the
\* clipboard; output.promptify is written exactly when the clipboard step
\* failed and no --output path was given; with --output the text is written
\* to that path whatever the clipboard did; so unless a file write failed,
\* the text reached the clipboard or a file; and what is written is the text
\* offered to the clipboard.
C4_ClipboardWithFallback ==
    Delivered =>
        /\ history.offered = <<output>>
        /\ clipboard_success => clipboard = output
        /\ WrittenTo(FallbackPath) => (~clipboard_success /\ ~OutputGiven)
        /\ (~clipboard_success /\ ~OutputGiven /\ history.wrote # "failed")
               => WrittenTo(FallbackPath)
        /\ (OutputGiven /\ history.wrote # "failed") => WrittenTo(args.output)
        /\ history.wrote # "failed" => (clipboard_success \/ written # <<>>)
        /\ \A i \in 1..Len(written) : written[i][2] = history.offered[1]

\* a run with --output whose clipboard step failed wrote the text to that
\* path and not to output.promptify
C4_Witness ==
    /\ Delivered
    /\ OutputGiven
    /\ ~clipboard_success
    /\ files_included # <<>>
    /\ WrittenTo(args.output)
    /\ ~WrittenTo(FallbackPath)

PastLoad == pc \notin {"idle", "load"}

RECURSIVE NonSpaces(_)
NonSpaces(text) ==
    IF text = <<>> THEN 0
    ELSE (IF IsSpace(Head(text)) THEN 0 ELSE 1) + NonSpaces(Tail(text))

RECURSIVE SumOver(_, _)
SumOver(paths, i) ==
    IF i > Len(paths) THEN 0
    ELSE NonSpaces(FileHeader(paths[i])) + NonSpaces(ExpectedBody(FileAt(paths[i])))
             + SumOver(paths, i + 1)

CharacterCount == metadata[2][2]

\* C8: the Character Count is the number of characters that are not
\* whitespace of the aggregated text, which is the text main offers to the
\* clipboard and writes: the headers and the fence markers count with the
\* contents; it is zero when no file is included.
C8_CharacterCount ==
    metadata # <<>> =>
        /\ metadata[2][1] = "Character Count"
        /\ CharacterCount = NonSpaces(output)
        /\ CharacterCount = SumOver(files_included, 1)
        /\ history.offered # <<>> => CharacterCount = NonSpaces(history.offered[1])
        /\ \A i \in 1..Len(written) : CharacterCount = NonSpaces(written[i][2])
        /\ files_included = <<>> => CharacterCount = 0

\* a run delivered, to the clipboard and to a file, a text with a fenced
\* file in it and whitespace
C8_Witness ==
    /\ Delivered
    /\ clipboard_success
    /\ written # <<>>
    /\ \E i \in 1..Len(files_included) : Recognized(FileAt(files_included[i]).name)
    /\ CharacterCount < Len(output)

\* the profile file does not load: missing, unreadable or an empty document
Unloadable(name) == profiles[name].state # "file" \/ profiles[name].doc = <<>>

\* C9: a run whose --profile names a profile that does not load returns -1
\* at once: nothing is walked or aggregated, nothing goes to the clipboard,
\* no file is written and no profile is saved.
C9_FailedLoadStops ==
    /\ (/\ PastLoad
        /\ Truthy(args.profile)
        /\ history.save = "none"
        /\ Unloadable(args.profile)) => (pc = "exit" /\ rc = MinusOne)
    /\ rc = MinusOne =>
           /\ pc = "exit"
           /\ history.visited = {}
           /\ history.walked = {}
           /\ result = <<>>
           /\ files_included = <<>>
           /\ files_skipped = <<>>
           /\ output = <<>>
           /\ metadata = <<>>
           /\ printed = <<>>
           /\ history.offered = <<>>
           /\ clipboard = <<>>
           /\ written = <<>>
           /\ history.save = "none"

\* a run with --profile, --export-profile and --output has returned -1: the
\* profile file holds an empty document
C9_Witness ==
    /\ pc = "exit"
    /\ rc = MinusOne
    /\ Truthy(args.profile)
    /\ Truthy(args.export_profile)
    /\ Truthy(args.output)
    /\ profiles[args.profile] = [state |-> "file", doc |-> <<>>]

(***************************************************************************)
(* Properties of print_directory_tree, checked under SpecTree.  The lines   *)
(* are read as a reader reads them: the depth of a line is the number of   *)
(* indentation groups before its connector, and its parent is the nearest  *)
(* line above it that is one level up.                                     *)
(***************************************************************************)
RECURSIVE LineDepth(_)
LineDepth(line) ==
    IF Len(line) >= 4 /\ SubSeq(line, 1, 4) \in {Indent, BarIndent}
    THEN 1 + LineDepth(SubSeq(line, 5, Len(line)))
    ELSE 0

LineConnector(line) == SubSeq(line, 4 * LineDepth(line) + 1, 4 * LineDepth(line) + 4)

LineName(line) == SubSeq(line, 4 * LineDepth(line) + 5, Len(line))

\* the depth of each line
RECURSIVE LineDepths(_)
LineDepths(lines) ==
    IF lines = <<>> THEN <<>>
    ELSE <<LineDepth(Head(lines))>> \o LineDepths(Tail(lines))

\* for each line from the i-th on, the index of its parent line (0 for the
\* first line, the root's)
RECURSIVE ParentLines(_, _)
ParentLines(depth, i) ==
    IF i > Len(depth) THEN <<>>
    ELSE << IF i = 1 THEN 0
            ELSE CHOOSE k \in 1..(i - 1) :
                     /\ depth[k] + 1 = depth[i]
                     /\ \A m \in (k + 1)..(i - 1) : depth[m] + 1 # depth[i] >>
             \o ParentLines(depth, i + 1)

\* for each line up to the i-th, the path it stands for: the names from the
\* root's child down to it, joined by "/" (nothing for the root's line)
RECURSIVE LinePaths(_, _, _)
LinePaths(lines, parent, i) ==
    IF i = 0 THEN <<>>
    ELSE LET above == LinePaths(lines, parent, i - 1)
         IN  Append(above,
                    IF i = 1 THEN <<>>
                    ELSE IF parent[i] = 1 THEN LineName(lines[i])
                    ELSE above[parent[i]] \o <<"/">> \o LineName(lines[i]))

\* the non-empty prefixes of the paths that end before a "/" or at the end
PathPrefixes(paths) ==
    UNION { {SubSeq(paths[i], 1, k) :
                k \in {n \in 1..Len(paths[i]) :
                          n = Len(paths[i]) \/ paths[i][n + 1] = "/"}} :
            i \in 1..Len(paths) }

\* C7: one line for the root "." and one for each distinct prefix of the
\* paths; every line sits below its parent's line, before the parent's next
\* sibling; the children of a node are in ascending order of name; the last
\* child of a node, and only it, has the corner connector.
C7_TreeOfPaths ==
    pc = "clip" =>
        LET lines == printed[1]
            n == Len(lines)
            wellFormed ==
                /\ lines[1] = LastBranch \o <<".">>
                /\ \A i \in 2..n :
                       /\ LineDepth(lines[i]) >= 1
                       /\ LineDepth(lines[i]) <= LineDepth(lines[i - 1]) + 1
                       /\ LineConnector(lines[i]) \in {LastBranch, Branch}
            parent == ParentLines(LineDepths(lines), 1)
            path == LinePaths(lines, parent, n)
        IN  /\ n = 1 + Cardinality(PathPrefixes(files_included))
            /\ wellFormed
            /\ {path[i] : i \in 2..n} = PathPrefixes(files_included)
            /\ \A i, j \in 2..n :
                   (i < j /\ parent[i] = parent[j])
                       => StrLess(LineName(lines[i]), LineName(lines[j]))
            /\ \A i \in 2..n :
                   (LineConnector(lines[i]) = LastBranch)
                       <=> ~\E j \in (i + 1)..n : parent[j] = parent[i]

\* the tree of a list of three paths, one of them given twice, was printed:
\* a directory with two children
C7_Witness ==
    /\ pc = "clip"
    /\ Len(files_included) = 3
    /\ \E i, j \in 1..3 : i # j /\ files_included[i] = files_included[j]
    /\ Len(printed[1]) = 4
    /\ \E i \in 2..4 : LineDepth(printed[1][i]) = 2

====
